---- MODULE Spec2Model ----
(***************************************************************************)
(* Model of the user CRUD service: the five actix-web handlers of          *)
(* src/main.rs, the response envelope and error type of src/response.rs,   *)
(* and the `users` table the handlers query through sqlx.                  *)
(*                                                                         *)
(* Text (name, email) is a sequence of one-character strings, so that      *)
(* is_empty() and contains('@') are computed and not assumed.              *)
(* Each handler runs in two steps: from its entry to the `.await` of its   *)
(* one query (x_begin), and from the query's execution to the returned     *)
(* response (x_resume).  Several requests are in flight at once.           *)
(***************************************************************************)
EXTENDS Naturals, Sequences, FiniteSets, Bags

\* ------------------------------------------------------------------ bounds
MaxId == 2          \* ids the table's sequence hands out: 1..MaxId
MaxInFlight == 2    \* requests handled concurrently

\* ------------------------------------------------------------------ inputs
Ana == <<"A", "n", "a">>
NoAt == <<"a", "n", "a">>
AnaMail == <<"a", "n", "a", "@", "x">>
BobMail == <<"b", "o", "b", "@", "x">>

Names == {<<>>, Ana}
Emails == {<<>>, NoAt, AnaMail, BobMail}
Ids == 1..MaxId

\* ------------------------------------------------------- String operations
is_empty(s) == Len(s) = 0
contains(s, c) == \E i \in 1..Len(s) : s[i] = c

\* --------------------------------------------------------- response.rs
OK == 200
BAD_REQUEST == 400
INTERNAL_SERVER_ERROR == 500
\* the status the API documentation of create_user promises
CREATED == 201

Invalid(err) == [variant |-> "Invalid", err |-> err]
InternalError == [variant |-> "InternalError", err |-> ""]

status_code(e) ==
    IF e.variant = "Invalid" THEN BAD_REQUEST ELSE INTERNAL_SERVER_ERROR

\* JSON values: the unit value () serializes to null, a User to an object,
\* a Vec<User> to an array (kept as the set of its rows: the SELECT has no
\* ORDER BY).
JsonNull == [j |-> "null"]
JsonUser(u) == [j |-> "object", id |-> u.id, name |-> u.name, email |-> u.email]
JsonArray(us) == [j |-> "array", items |-> {JsonUser(u) : u \in us}]
Unit == [t |-> "unit"]
Serialize(d) ==
    IF d.t = "unit" THEN JsonNull
    ELSE IF d.t = "user" THEN JsonUser(d.v)
    ELSE JsonArray(d.v)

ErrModel(err) == [success |-> FALSE, err |-> err]
OkModel(data) == [success |-> TRUE, data |-> Serialize(data)]

InternalMessage == "500 error interno del servidor"

\* variant: the builder started from HttpResponse::Ok()
error_response_ok(e) ==
    [status |-> OK,
     body |-> IF e.variant = "Invalid" THEN ErrModel(e.err)
              ELSE ErrModel(InternalMessage)]

error_response(e) ==
    [status |-> status_code(e),
     body |-> IF e.variant = "Invalid" THEN ErrModel(e.err)
              ELSE ErrModel(InternalMessage)]

\* web::Json<OkModel<T>> as a Responder: 200 with the serialized body.
json_response(data) == [status |-> OK, body |-> OkModel(data)]

\* Result<web::Json<OkModel<T>>, AppError>
Ok(v) == [ok |-> TRUE, v |-> v]
Err(e) == [ok |-> FALSE, e |-> e]

Respond(res) == IF res.ok THEN json_response(res.v) ELSE error_response(res.e)

\* variant: the conversion hands the cause to the client
from_sqlx_leak(e) == Invalid(e.kind)

\* impl From<sqlx::Error> for AppError
from_sqlx(e) == InternalError

\* ------------------------------------------------------------ sqlx errors
RowNotFound == [kind |-> "RowNotFound", unique |-> FALSE]
UniqueViolation == [kind |-> "Database", unique |-> TRUE]
DatabaseOther == [kind |-> "Database", unique |-> FALSE]
Io == [kind |-> "Io", unique |-> FALSE]
NoFault == [kind |-> "none", unique |-> FALSE]

\* failures the pool or the server can raise on any query
FailureCauses == {DatabaseOther, Io}
Faults == {NoFault} \cup FailureCauses

is_unique_violation(e) == e.kind = "Database" /\ e.unique

\* ------------------------------------------------------------- the table
VARIABLES store, nextId, inflight, resp
vars == <<store, nextId, inflight, resp>>

User(id, row) == [id |-> id, name |-> row.name, email |-> row.email]
Rows(s) == {User(i, s[i]) : i \in DOMAIN s}

\* the UNIQUE constraint on users.email
EmailTaken(s, email, self) ==
    \E i \in DOMAIN s : i # self /\ s[i].email = email

\* each query: <<result, table after it>>
SelectAll(s) == [res |-> Ok(Rows(s)), store |-> s]

SelectById(s, id) ==
    [res |-> IF id \in DOMAIN s THEN Ok(User(id, s[id])) ELSE Err(RowNotFound),
     store |-> s]

InsertReturning(s, n, name, email) ==
    IF EmailTaken(s, email, 0)
    THEN [res |-> Err(UniqueViolation), store |-> s]
    ELSE LET row == [name |-> name, email |-> email]
         IN [res |-> Ok(User(n, row)),
             store |-> [i \in DOMAIN s \cup {n} |-> IF i = n THEN row ELSE s[i]]]

UpdateReturning(s, id, name, email) ==
    IF id \notin DOMAIN s THEN [res |-> Err(RowNotFound), store |-> s]
    ELSE IF EmailTaken(s, email, id)
    THEN [res |-> Err(UniqueViolation), store |-> s]
    ELSE LET row == [name |-> name, email |-> email]
         IN [res |-> Ok(User(id, row)), store |-> [s EXCEPT ![id] = row]]

\* result value: rows_affected
DeleteById(s, id) ==
    IF id \in DOMAIN s
    THEN [res |-> Ok(1), store |-> [i \in DOMAIN s \ {id} |-> s[i]]]
    ELSE [res |-> Ok(0), store |-> s]

\* a query under a fault: the fault's error, the table untouched
Query(q, s, fault) == IF fault = NoFault THEN q ELSE [res |-> Err(fault), store |-> s]

\* ------------------------------------------------------------- main.rs
NotFoundMessage == "Usuario no encontrado"
RequiredMessage == "Nombre y email son requeridos"
FormatMessage == "Formato de email inválido"
CreateDuplicateMessage == "El email ya está registrado"
UpdateDuplicateMessage == "El email ya está registrado por otro usuario"

UserData(u) == [t |-> "user", v |-> u]
ListData(us) == [t |-> "list", v |-> us]

\* get_users: `.await?` turns every sqlx error into AppError through From
get_users_match(r) ==
    IF r.ok THEN Ok(ListData(r.v)) ELSE Err(from_sqlx(r.e))

\* variant: a bare `?` in place of the map_err
get_user_match_plain(r) ==
    IF r.ok THEN Ok(UserData(r.v)) ELSE Err(from_sqlx(r.e))

\* get_user: map_err, then `?`
get_user_match(r) ==
    IF r.ok THEN Ok(UserData(r.v))
    ELSE IF r.e.kind = "RowNotFound" THEN Err(Invalid(NotFoundMessage))
    ELSE Err(InternalError)

\* variant: the format check placed before the emptiness check
create_user_validate_swapped(name, email) ==
    IF ~contains(email, "@") THEN Err(Invalid(FormatMessage))
    ELSE IF is_empty(name) \/ is_empty(email) THEN Err(Invalid(RequiredMessage))
    ELSE Ok(Unit)

\* create_user, steps 1 and 2: the early returns before the query
create_user_validate(name, email) ==
    IF is_empty(name) \/ is_empty(email) THEN Err(Invalid(RequiredMessage))
    ELSE IF ~contains(email, "@") THEN Err(Invalid(FormatMessage))
    ELSE Ok(Unit)

\* variant: the match without its unique-violation arm
create_user_match_nounique(r) ==
    IF r.ok THEN Ok(UserData(r.v)) ELSE Err(InternalError)

\* create_user, step 3: the match on the query's result
create_user_match(r) ==
    IF r.ok THEN Ok(UserData(r.v))
    ELSE IF is_unique_violation(r.e) THEN Err(Invalid(CreateDuplicateMessage))
    ELSE Err(InternalError)

\* variant: update_user without its two checks
update_user_validate_none(name, email) == Ok(Unit)

\* update_user, steps 1 and 2
update_user_validate(name, email) ==
    IF is_empty(name) \/ is_empty(email) THEN Err(Invalid(RequiredMessage))
    ELSE IF ~contains(email, "@") THEN Err(Invalid(FormatMessage))
    ELSE Ok(Unit)

\* variant: the match without its unique-violation arm
update_user_match_nounique(r) ==
    IF r.ok THEN Ok(UserData(r.v))
    ELSE IF r.e.kind = "RowNotFound" THEN Err(Invalid(NotFoundMessage))
    ELSE Err(InternalError)

\* update_user, step 3
update_user_match(r) ==
    IF r.ok THEN Ok(UserData(r.v))
    ELSE IF r.e.kind = "RowNotFound" THEN Err(Invalid(NotFoundMessage))
    ELSE IF is_unique_violation(r.e) THEN Err(Invalid(UpdateDuplicateMessage))
    ELSE Err(InternalError)

\* variant: the match without the rows_affected guard
delete_user_match_any(r) ==
    IF r.ok THEN Ok(Unit) ELSE Err(InternalError)

\* delete_user: the match on the result of execute()
delete_user_match(r) ==
    IF r.ok /\ r.v > 0 THEN Ok(Unit)
    ELSE IF r.ok THEN Err(Invalid(NotFoundMessage))
    ELSE Err(InternalError)

\* ------------------------------------------------------ requests in flight
Idle == [op |-> "idle", id |-> 0, name |-> <<>>, email |-> <<>>, calls |-> 0]
Request(op, id, name, email) ==
    [op |-> op, id |-> id, name |-> name, email |-> email, calls |-> 0]

\* the handler reaches the `.await` of its query: one call to the pool
Await(req) == [req EXCEPT !.calls = @ + 1]

NoResp == [op |-> "none"]

\* the response of a finished request, with what the request was, the table
\* its query ran on, and the fault the query met
Response(req, pre, fault, r) ==
    [op |-> req.op, id |-> req.id, name |-> req.name, email |-> req.email,
     calls |-> req.calls, pre |-> pre, fault |-> fault,
     status |-> r.status, body |-> r.body]

EmptyTable == [i \in {} |-> [name |-> <<>>, email |-> <<>>]]

Init ==
    /\ store = EmptyTable
    /\ nextId = 1
    /\ inflight = EmptyBag
    /\ resp = NoResp

\* the requests suspended at their query, as a bag: the server does not
\* tell two equal requests apart
Suspended == BagToSet(inflight)

Start(req) ==
    /\ BagCardinality(inflight) < MaxInFlight
    /\ inflight' = inflight (+) SetToBag({Await(req)})
    /\ UNCHANGED <<store, nextId, resp>>

\* the handler returns before any query
EarlyReturn(req, res) ==
    /\ BagCardinality(inflight) < MaxInFlight
    /\ resp = NoResp
    /\ resp' = Response(req, store, NoFault, Respond(res))
    /\ UNCHANGED <<store, nextId, inflight>>

\* the query runs and the handler returns its response
Finish(req, q, fault, res) ==
    /\ resp = NoResp
    /\ store' = q.store
    /\ resp' = Response(req, store, fault, Respond(res))
    /\ inflight' = inflight (-) SetToBag({req})

get_users_begin == Start(Request("get_users", 0, <<>>, <<>>))

get_users_resume(r, fault) ==
    /\ r.op = "get_users"
    /\ LET q == Query(SelectAll(store), store, fault)
       IN Finish(r, q, fault, get_users_match(q.res))
    /\ UNCHANGED nextId

get_user_begin(id) == Start(Request("get_user", id, <<>>, <<>>))

get_user_resume(r, fault) ==
    /\ r.op = "get_user"
    /\ LET q == Query(SelectById(store, r.id), store, fault)
       IN Finish(r, q, fault, get_user_match(q.res))
    /\ UNCHANGED nextId

\* inserts on their way to the table
PendingInserts ==
    BagCardinality([r \in {x \in Suspended : x.op = "create_user"} |-> inflight[r]])

create_user_begin(name, email) ==
    LET req == Request("create_user", 0, name, email)
        v == create_user_validate(name, email)
    IN IF v.ok
       THEN nextId + PendingInserts <= MaxId /\ Start(req)
       ELSE EarlyReturn(req, v)

\* variant: a failed insert is issued a second time
create_user_resume_retry(r, fault) ==
    /\ r.op = "create_user"
    /\ LET q == Query(InsertReturning(store, nextId, r.name, r.email), store, fault)
       IN IF fault # NoFault /\ r.calls < 2
          THEN /\ inflight' = (inflight (-) SetToBag({r})) (+) SetToBag({Await(r)})
               /\ UNCHANGED <<store, nextId, resp>>
          ELSE /\ Finish(r, q, fault, create_user_match(q.res))
               /\ nextId' = IF q.res.ok THEN nextId + 1 ELSE nextId

create_user_resume(r, fault) ==
    /\ r.op = "create_user"
    /\ LET q == Query(InsertReturning(store, nextId, r.name, r.email), store, fault)
       IN /\ Finish(r, q, fault, create_user_match(q.res))
          /\ nextId' = IF q.res.ok THEN nextId + 1 ELSE nextId

update_user_begin(id, name, email) ==
    LET req == Request("update_user", id, name, email)
        v == update_user_validate(name, email)
    IN IF v.ok THEN Start(req) ELSE EarlyReturn(req, v)

update_user_resume(r, fault) ==
    /\ r.op = "update_user"
    /\ LET q == Query(UpdateReturning(store, r.id, r.name, r.email), store, fault)
       IN Finish(r, q, fault, update_user_match(q.res))
    /\ UNCHANGED nextId

delete_user_begin(id) == Start(Request("delete_user", id, <<>>, <<>>))

delete_user_resume(r, fault) ==
    /\ r.op = "delete_user"
    /\ LET q == Query(DeleteById(store, r.id), store, fault)
       IN Finish(r, q, fault, delete_user_match(q.res))
    /\ UNCHANGED nextId

\* the server writes the response to the client
Deliver ==
    /\ resp # NoResp
    /\ resp' = NoResp
    /\ UNCHANGED <<store, nextId, inflight>>

Next ==
    \/ get_users_begin
    \/ \E r \in Suspended, f \in Faults : get_users_resume(r, f)
    \/ \E id \in Ids : get_user_begin(id)
    \/ \E r \in Suspended, f \in Faults : get_user_resume(r, f)
    \/ \E n \in Names, e \in Emails : create_user_begin(n, e)
    \/ \E r \in Suspended, f \in Faults : create_user_resume(r, f)
    \/ \E id \in Ids, n \in Names, e \in Emails : update_user_begin(id, n, e)
    \/ \E r \in Suspended, f \in Faults : update_user_resume(r, f)
    \/ \E id \in Ids : delete_user_begin(id)
    \/ \E r \in Suspended, f \in Faults : delete_user_resume(r, f)
    \/ Deliver

Spec == Init /\ [][Next]_vars

TypeOK ==
    /\ DOMAIN store \subseteq Ids
    /\ nextId \in 1..(MaxId + 1)
    /\ \A i \in DOMAIN store : i < nextId
    /\ BagCardinality(inflight) <= MaxInFlight
    /\ \A r \in Suspended : r.calls = 1

\* ==================================================================
\* Properties.  `resp` is the response a handler has just returned,
\* resp.pre the table its query ran on, `store` the table after it.
\* ==================================================================
Responded == resp # NoResp
By(op) == Responded /\ resp.op = op
NonEmpty(s) == Len(s) > 0
HasAt(s) == \E i \in DOMAIN s : s[i] = "@"
ValidBody(name, email) == NonEmpty(name) /\ NonEmpty(email) /\ HasAt(email)
Held(s, email) == \E i \in DOMAIN s : s[i].email = email
HeldByOther(s, email, id) == \E i \in DOMAIN s : i # id /\ s[i].email = email
ErrBody(msg) == [success |-> FALSE, err |-> msg]
Without(s, id) == [i \in DOMAIN s \ {id} |-> s[i]]

\* ------------------------------------------------------------------ C1
\* C1: a Create with non-empty name and email, an '@' in the email and an
\* email no stored user holds (its insert meeting no failure) is answered
\* with status 201 and {success:true, data:User}, the user carrying the
\* submitted name and email and the id the table assigned.
C1_CreateAnswers201 ==
    (By("create_user") /\ ValidBody(resp.name, resp.email)
        /\ ~Held(resp.pre, resp.email) /\ resp.fault = NoFault)
    => /\ resp.status = CREATED
       /\ resp.body.success = TRUE
       /\ resp.body.data.name = resp.name
       /\ resp.body.data.email = resp.email
       /\ resp.body.data.id \in DOMAIN store \ DOMAIN resp.pre

\* ------------------------------------------------------------------ C2
\* C2 as written: Create and Update answer an empty name or email with
\* "name and email are required", otherwise an email without '@' with
\* "invalid email format", otherwise they go on to the query.
C2_Original ==
    (By("create_user") \/ By("update_user"))
    => IF ~NonEmpty(resp.name) \/ ~NonEmpty(resp.email)
       THEN resp.calls = 0 /\ resp.status = 400
            /\ resp.body = ErrBody("name and email are required")
       ELSE IF ~HasAt(resp.email)
       THEN resp.calls = 0 /\ resp.status = 400
            /\ resp.body = ErrBody("invalid email format")
       ELSE resp.calls = 1

\* C2 amended: the rules are checked in that order and stop at the first
\* failure, with the messages "Nombre y email son requeridos" and
\* "Formato de email inválido"; an input that passes both reaches the query.
C2_Validation ==
    (By("create_user") \/ By("update_user"))
    => IF ~NonEmpty(resp.name) \/ ~NonEmpty(resp.email)
       THEN resp.calls = 0 /\ resp.status = 400
            /\ resp.body = ErrBody("Nombre y email son requeridos")
       ELSE IF ~HasAt(resp.email)
       THEN resp.calls = 0 /\ resp.status = 400
            /\ resp.body = ErrBody("Formato de email inválido")
       ELSE resp.calls = 1

\* an Update whose email is empty (so it breaks both rules) got the first message
C2_Witness ==
    /\ By("update_user")
    /\ NonEmpty(resp.name) /\ ~NonEmpty(resp.email) /\ ~HasAt(resp.email)
    /\ resp.body = ErrBody("Nombre y email son requeridos")

\* ------------------------------------------------------------------ C3
\* C3: every stored user has a non-empty name and a non-empty email with an
\* '@', and no Create or Update is suspended at its query with a body that
\* fails validation.
C3_StoredUsersValid ==
    /\ \A i \in DOMAIN store : ValidBody(store[i].name, store[i].email)
    /\ \A r \in Suspended :
          r.op \in {"create_user", "update_user"} => ValidBody(r.name, r.email)

\* a stored user rewritten by an Update that ran while a Create was
\* suspended at its insert
C3_Witness ==
    /\ DOMAIN store # {}
    /\ By("update_user") /\ resp.status = 200 /\ store # resp.pre
    /\ \E r \in Suspended : r.op = "create_user"

C5_Original ==
    (By("create_user") /\ ValidBody(resp.name, resp.email)
        /\ Held(resp.pre, resp.email) /\ resp.fault = NoFault)
    => /\ resp.status = 400
       /\ resp.body = ErrBody("email already registered")
       /\ store = resp.pre

\* C5 amended: it yields 400 with err "El email ya está registrado", and
\* the table is left as it was.
C5_DuplicateCreate ==
    (By("create_user") /\ ValidBody(resp.name, resp.email)
        /\ Held(resp.pre, resp.email) /\ resp.fault = NoFault)
    => /\ resp.status = 400
       /\ resp.body = ErrBody("El email ya está registrado")
       /\ store = resp.pre

C5_Witness ==
    /\ By("create_user") /\ Held(resp.pre, resp.email) /\ resp.fault = NoFault
    /\ resp.status = 400 /\ DOMAIN store # {}

\* ------------------------------------------------------------------ C6
\* what a Delete whose query met no failure answers, and does to the table
C6_FirstAndSecond ==
    (By("delete_user") /\ resp.fault = NoFault)
    => IF resp.id \in DOMAIN resp.pre
       THEN /\ resp.status = 200
            /\ resp.body = [success |-> TRUE, data |-> JsonNull]
            /\ store = Without(resp.pre, resp.id)
       ELSE /\ resp.status = 400
            /\ resp.body = Respond(get_user_match(Err(RowNotFound))).body
            /\ store = resp.pre

\* an id the table has handed out and no longer holds is never held again
C6_StaysDeleted ==
    \A i \in Ids : (i < nextId /\ i \notin DOMAIN store) => i \notin DOMAIN store'

C7_Envelope ==
    Responded
    => /\ resp.body.success \in BOOLEAN
       /\ ("data" \in DOMAIN resp.body) <=> (resp.body.success = TRUE)
       /\ ("err" \in DOMAIN resp.body) <=> (resp.body.success = FALSE)
       /\ (resp.status \in 200..299) <=> (resp.body.success = TRUE)
       /\ DOMAIN resp.body \subseteq {"success", "data", "err"}

\* a successful Delete: data is there although it is null
C7_Witness ==
    /\ By("delete_user") /\ resp.status = 200
    /\ "data" \in DOMAIN resp.body /\ resp.body.data = JsonNull

\* ------------------------------------------------------------------ C8
\* C8: in every handler a failure of the query that is neither not-found
\* nor a unique violation yields 500 with one fixed err, whatever the
\* handler and whatever the cause.
C8_InternalErrorOpaque ==
    (Responded /\ resp.fault \in FailureCauses)
    => /\ resp.status = 500
       /\ resp.body = ErrBody("500 error interno del servidor")

C8_Witness ==
    /\ By("get_users") /\ resp.fault = DatabaseOther /\ resp.status = 500

\* ------------------------------------------------------------------ C9
\* C9 as written: an Update with a valid body whose email another stored
\* user holds yields 400 with the err Create returns for a duplicate email,
\* and leaves the table as it was.
C9_Original ==
    (By("update_user") /\ ValidBody(resp.name, resp.email)
        /\ resp.id \in DOMAIN resp.pre
        /\ HeldByOther(resp.pre, resp.email, resp.id) /\ resp.fault = NoFault)
    => /\ resp.status = 400
       /\ resp.body = Respond(create_user_match(Err(UniqueViolation))).body
       /\ store = resp.pre

\* C9 amended: it yields 400 with Update's own err, "El email ya está
\* registrado por otro usuario", and leaves the table as it was.
C9_DuplicateUpdate ==
    (By("update_user") /\ ValidBody(resp.name, resp.email)
        /\ resp.id \in DOMAIN resp.pre
        /\ HeldByOther(resp.pre, resp.email, resp.id) /\ resp.fault = NoFault)
    => /\ resp.status = 400
       /\ resp.body = ErrBody("El email ya está registrado por otro usuario")
       /\ store = resp.pre

C9_Witness ==
    /\ By("update_user") /\ resp.id \in DOMAIN resp.pre
    /\ HeldByOther(resp.pre, resp.email, resp.id) /\ resp.fault = NoFault
    /\ resp.status = 400

\* ----------------------------------------------------------------- C10
\* C10 as written: every handled request makes exactly one call to the
\* pool, and a failed call is answered at once with 500.
C10_Original ==
    /\ \A r \in Suspended : r.calls = 1
    /\ Responded
        => /\ resp.calls = 1
           /\ resp.fault \in FailureCauses => resp.status = 500

\* C10 amended: a request makes at most one call: none when Create or
\* Update rejects its body, exactly one otherwise; a failed call is never
\* repeated and is answered at once with 500.
C10_AtMostOneCall ==
    /\ \A r \in Suspended : r.calls = 1
    /\ Responded
        => /\ resp.calls =
                IF resp.op \in {"create_user", "update_user"}
                   /\ ~ValidBody(resp.name, resp.email)
                THEN 0 ELSE 1
           /\ resp.fault \in FailureCauses
                => resp.calls = 1 /\ resp.status = 500

\* a Create whose insert failed was answered 500 after its one call
C10_Witness ==
    /\ By("create_user") /\ resp.fault = Io
    /\ resp.calls = 1 /\ resp.status = 500

====
